---- MODULE Spec2Model ----
(***************************************************************************)
(* State machine of agent_server.py: a watchdog thread turns file          *)
(* modifications into pipeline_refactor coroutines on one asyncio event    *)
(* loop; each coroutine broadcasts status / diff / error messages to the   *)
(* WebSocket connections held by the module-level ConnectionManager.       *)
(*                                                                         *)
(* Threads: the event loop (coroutine steps, sends, connect / disconnect), *)
(* the watchdog thread (on_modified), asyncio.to_thread workers (the       *)
(* external tool) and the environment (file saves / deletes, clients going *)
(* away).  A step of the event loop is the code between two suspensions of *)
(* a task; a synchronous read_text_file keeps the loop thread busy.        *)
(***************************************************************************)
EXTENDS Integers, Sequences, FiniteSets, TLC

\* ---------------------------------------------------------------- bounds
NumSubs == 2
MaxEvents == 2
\* filesystem events plus client connections, over a whole behaviour
MaxLoad == 3

Subs == 1..NumSubs

\* ---------------------------------------------------------------- texts
\* A text is a sequence of lines; a path or a name is a sequence of tokens.
\* error=None of SubprocessResult
None == [type |-> "None", arg |-> <<>>]
FooPath == <<"src", "/", "foo", ".py">>
OwnPath == <<"src", "/", "agent_server", ".py">>
DirPath == <<"src">>
\* other sources whose path has the text agent_server.py in it
LongerNamePath == <<"src", "/", "my_", "agent_server", ".py">>
InDirPath == <<"agent_server", ".py", ".d", "/", "bar", ".py">>
PROMPT_FILE == <<"refactor_prompt", ".txt">>
PromptText == <<"refactor">>
InitialText == <<"x = 1">>
\* the text each successive save writes, and what the tool can print
FileTexts == << <<"x = 1", "y = 2">>, <<"x = 1">>, <<"y = 2">> >>
ToolTexts == {<<"x = 1", "y = 2">>}
GeminiCliExists == FALSE

Range(s) == {s[i] : i \in 1..Len(s)}

\* str.endswith
EndsWith(s, suf) ==
    /\ Len(suf) <= Len(s)
    /\ SubSeq(s, Len(s) - Len(suf) + 1, Len(s)) = suf

\* the `in` operator on strings
Contains(s, sub) ==
    \E i \in 1..(Len(s) + 1) :
        /\ i + Len(sub) - 1 <= Len(s)
        /\ SubSeq(s, i, i + Len(sub) - 1) = sub

\* Path.name: what follows the last separator
PathName(p) ==
    LET seps == {i \in 1..Len(p) : p[i] = "/"}
        last == IF seps = {} THEN 0 ELSE CHOOSE i \in seps : \A j \in seps : j <= i
    IN SubSeq(p, last + 1, Len(p))

\* ---------------------------------------------------------------- pure functions
is_watchable_file(event) ==
    /\ ~event.is_directory
    /\ EndsWith(event.src_path, <<".py">>)
    /\ ~Contains(event.src_path, <<"agent_server", ".py">>)

\* f"task-{file_path.name}-{file_path.stat().st_mtime}", the stat result given
generate_task_id(file_path, st_mtime) ==
    <<"task-">> \o PathName(file_path) \o <<"-", st_mtime>>

\* f"{prompt}\n---\n{code}"
construct_gemini_input(prompt, code) ==
    prompt \o <<"---">> \o code

determine_gemini_command ==
    IF GeminiCliExists THEN <<"/usr/local/bin/gemini">> ELSE <<"gemini">>

\* difflib.unified_diff on texts that differ in one block, joined
CommonPrefix(a, b) ==
    LET ks == {k \in 0..Len(a) : k <= Len(b) /\ \A i \in 1..k : a[i] = b[i]}
    IN CHOOSE k \in ks : \A j \in ks : j <= k

CommonSuffix(a, b, p) ==
    LET ks == {k \in 0..(Len(a) - p) :
                 /\ k <= Len(b) - p
                 /\ \A i \in 1..k : a[Len(a) - k + i] = b[Len(b) - k + i]}
    IN CHOOSE k \in ks : \A j \in ks : j <= k

Tagged(tag, lines) == [i \in 1..Len(lines) |-> <<tag, lines[i]>>]

generate_diff(original, refactored, filename) ==
    IF original = refactored THEN <<>>
    ELSE LET p == CommonPrefix(original, refactored)
             s == CommonSuffix(original, refactored, p)
         IN <<  <<"---", <<"a/">> \o filename>>,
                <<"+++", <<"b/">> \o filename \o <<" (refactored)">>>>,
                <<"@@", Len(original), Len(refactored)>> >>
            \o Tagged(" ", SubSeq(original, 1, p))
            \o Tagged("-", SubSeq(original, p + 1, Len(original) - s))
            \o Tagged("+", SubSeq(refactored, p + 1, Len(refactored) - s))
            \o Tagged(" ", SubSeq(original, Len(original) - s + 1, Len(original)))

\* {'id': task_id, 'type': msg_type, 'filename': filename, **data}
create_message_payload(task_id, filename, msg_type, data) ==
    data @@ [id |-> task_id, type |-> msg_type, filename |-> filename]

\* ---------------------------------------------------------------- subprocess
SubprocessResult(stdout, stderr, returncode, error) ==
    [stdout |-> stdout, stderr |-> stderr, returncode |-> returncode, error |-> error]

is_successful(result) ==
    result.returncode = 0 /\ result.error = None

\* What subprocess.run can do with the command.
ProcOutcomes ==
    {[kind |-> "exit", returncode |-> 0, stdout |-> t, stderr |-> <<>>] : t \in ToolTexts}
    \cup {[kind |-> "exit", returncode |-> 1, stdout |-> <<>>, stderr |-> <<"syntax error">>],
          [kind |-> "exit", returncode |-> 1, stdout |-> <<"partial">>, stderr |-> <<>>],
          [kind |-> "FileNotFoundError", returncode |-> 0, stdout |-> <<>>, stderr |-> <<>>],
          [kind |-> "OSError", returncode |-> 0, stdout |-> <<>>, stderr |-> <<>>]}

execute_refactor_subprocess(command, input_data, proc) ==
    IF proc.kind = "FileNotFoundError"
    THEN SubprocessResult(<<>>, <<"command not found", command[1]>>, 0,
                          [type |-> "FileNotFoundError", arg |-> <<command[1]>>])
    ELSE IF proc.kind = "exit" /\ proc.returncode # 0
    THEN SubprocessResult(proc.stdout, proc.stderr, proc.returncode,
                          [type |-> "CalledProcessError", arg |-> <<proc.returncode>>])
    ELSE IF proc.kind = "exit"
    THEN SubprocessResult(proc.stdout, proc.stderr, proc.returncode, None)
    ELSE SubprocessResult(<<>>, <<"unexpected subprocess error", proc.kind>>, 0,
                          [type |-> proc.kind, arg |-> <<>>])

\* ---------------------------------------------------------------- state
VARIABLES
    fileExists,          \* the watched file foo.py is on disk
    fileMtime,           \* its st_mtime
    fileText,            \* its text
    eventQueue,          \* watchdog events not yet dispatched to on_modified
    nEvents,             \* events emitted so far
    callbacks,           \* history: eligible on_modified calls, and those that raised
    runs,                \* the pipeline_refactor coroutines, in scheduling order
    active_connections,  \* ConnectionManager.active_connections
    conn,                \* each WebSocket's state
    inflight,            \* asyncio.gather calls of broadcast with their pending sends
    received             \* history: per client and run, the messages received (by number)

vars == <<fileExists, fileMtime, fileText, eventQueue, nEvents, callbacks, runs,
          active_connections, conn, inflight, received>>

envVars == <<fileExists, fileMtime, fileText, eventQueue, nEvents, callbacks>>

Runs == 1..Len(runs)

\* the exception a send on a closed or broken WebSocket raises
SendError == [type |-> "WebSocketDisconnect", arg |-> <<>>]
ReadError(path) == [type |-> "FileNotFoundError", arg |-> path]

FileEvent(path, mtime) == [src_path |-> path, is_directory |-> FALSE, saved |-> mtime]
DirEvent(path) == [src_path |-> path, is_directory |-> TRUE, saved |-> 0]
OtherEvents == {DirEvent(DirPath), FileEvent(OwnPath, 0),
                FileEvent(LongerNamePath, 0), FileEvent(InDirPath, 0)}

\* what the environment has asked of the service so far
Load == nEvents + Cardinality({s \in Subs : conn[s] # "new"})

\* A blocking call made on the event-loop thread keeps every task of the loop waiting.
LoopBlocked ==
    \E r \in Runs : runs[r].pc \in {"read", "tool", "hung"} /\ runs[r].on_loop

\* ---------------------------------------------------------------- ConnectionManager
\* The state the coroutine steps below thread through.
Machine == [runs |-> runs, inflight |-> inflight]

\* broadcast without its test of the list: the gather is made and awaited even when
\* there is no connection
broadcastUnguarded(M, r, payload, waitPc) ==
    LET M1 == [M EXCEPT !.runs[r].published = Append(@, payload),
                        !.runs[r].audience = Append(@, Range(active_connections))]
    IN [M1 EXCEPT !.runs[r].pc = waitPc,
                  !.inflight = Append(@, [run |-> r,
                                          seq |-> Len(M1.runs[r].published),
                                          recipients |-> Range(active_connections),
                                          pending |-> Range(active_connections),
                                          outcome |-> IF active_connections = <<>>
                                                      THEN "ok" ELSE "pending",
                                          failed |-> {},
                                          awaited |-> TRUE])]

\* broadcast: nothing when there is no connection, else one send per connection of
\* the list as it is now, awaited together (pc waitPc).
broadcast(M, r, payload, waitPc) ==
    LET M1 == [M EXCEPT !.runs[r].published = Append(@, payload),
                        !.runs[r].audience = Append(@, Range(active_connections))]
    IN IF active_connections = <<>>
       THEN [M1 EXCEPT !.runs[r].pc = "go"]
       ELSE [M1 EXCEPT !.runs[r].pc = waitPc,
                       !.inflight = Append(@, [run |-> r,
                                               seq |-> Len(M1.runs[r].published),
                                               recipients |-> Range(active_connections),
                                               pending |-> Range(active_connections),
                                               outcome |-> "pending",
                                               failed |-> {},
                                               awaited |-> TRUE])]

RemoveAt(s, i) == SubSeq(s, 1, i - 1) \o SubSeq(s, i + 1, Len(s))

IndexOf(s, x) == CHOOSE i \in 1..Len(s) : s[i] = x

\* disconnect that takes the last connection off the list when the given one is
\* not in it
disconnectOrPop(connections, websocket) ==
    IF websocket \in Range(connections)
    THEN RemoveAt(connections, IndexOf(connections, websocket))
    ELSE SubSeq(connections, 1, Len(connections) - 1)

\* disconnect: list.remove of a member, nothing otherwise
disconnect(connections, websocket) ==
    IF websocket \in Range(connections)
    THEN RemoveAt(connections, IndexOf(connections, websocket))
    ELSE connections

\* ---------------------------------------------------------------- pipeline_refactor
Return(M, r) ==
    IF M.runs[r].pc = "go" THEN [M EXCEPT !.runs[r].pc = "done"] ELSE M

\* f"...: {type(e).__name__}: {e}"
InternalError(e) == <<"internal error", e.type, e.arg>>

\* except Exception as e: broadcast the internal error
PipelineExcept(M, r, e) ==
    LET run == M.runs[r]
        error_message == InternalError(e)
    IN Return(broadcast([M EXCEPT !.runs[r].exc = e], r,
                        create_message_payload(run.task_id, run.filename, "error",
                                               [error |-> error_message]),
                        "await_exc"), r)

\* PipelineDiff with the original text read again from disk when the diff is made
PipelineDiffRereads(M, r) ==
    LET run == M.runs[r]
        refactored_code == run.result.stdout
        diff_text == generate_diff(IF fileExists THEN fileText ELSE <<>>,
                                   refactored_code, run.filename)
    IN Return(broadcast([M EXCEPT !.runs[r].disk_at_diff =
                                       IF fileExists THEN <<fileText>> ELSE <<"missing">>],
                        r,
                        create_message_payload(run.task_id, run.filename, "diff",
                                               [diff |-> diff_text,
                                                refactored_code |-> refactored_code]),
                        "await_diff"), r)

\* generate_diff against the text read earlier, then the diff message
PipelineDiff(M, r) ==
    LET run == M.runs[r]
        refactored_code == run.result.stdout
        diff_text == generate_diff(run.original_code, refactored_code, run.filename)
    IN Return(broadcast([M EXCEPT !.runs[r].disk_at_diff =
                                       IF fileExists THEN <<fileText>> ELSE <<"missing">>],
                        r,
                        create_message_payload(run.task_id, run.filename, "diff",
                                               [diff |-> diff_text,
                                                refactored_code |-> refactored_code]),
                        "await_diff"), r)

\* result.stderr or str(result.error)
ErrorText(result) ==
    IF result.stderr # <<>>
    THEN result.stderr
    ELSE <<"str", result.error.type, result.error.arg>>

\* the branch on the tool's result
PipelineResult(M, r) ==
    LET run == M.runs[r]
    IN IF ~is_successful(run.result)
       THEN Return(broadcast(M, r,
                             create_message_payload(run.task_id, run.filename, "error",
                                                    [error |-> ErrorText(run.result)]),
                             "await_err"), r)
       ELSE LET M1 == broadcast(M, r,
                                create_message_payload(run.task_id, run.filename, "status",
                                                       [message |-> <<"computing diff">>]),
                                "await_s3")
            IN IF M1.runs[r].pc = "go" THEN PipelineDiff(M1, r) ELSE M1

\* PipelineInvoke with the task id derived again from the file as it is now
PipelineInvokeNewId(M, r) ==
    [M EXCEPT !.runs[r].pc = "tool", !.runs[r].on_loop = FALSE,
              !.runs[r].task_id = generate_task_id(M.runs[r].file_path, fileMtime)]

\* PipelineInvoke with the subprocess called directly in the coroutine
PipelineInvokeOnLoop(M, r) ==
    [M EXCEPT !.runs[r].pc = "tool", !.runs[r].on_loop = TRUE]

\* await asyncio.to_thread(execute_refactor_subprocess, command, input_data)
PipelineInvoke(M, r) ==
    [M EXCEPT !.runs[r].pc = "tool", !.runs[r].on_loop = FALSE]

\* the two read_text_file calls, the input, the command, the second status
PipelineRead(M, r, promptOk) ==
    LET run == M.runs[r]
    IN IF ~promptOk THEN PipelineExcept(M, r, ReadError(PROMPT_FILE))
       ELSE IF ~fileExists THEN PipelineExcept(M, r, ReadError(run.file_path))
       ELSE LET M1 == [M EXCEPT !.runs[r].original_code = fileText,
                                !.runs[r].input_data =
                                    construct_gemini_input(PromptText, fileText),
                                !.runs[r].command = determine_gemini_command]
                M2 == broadcast(M1, r,
                                create_message_payload(run.task_id, run.filename, "status",
                                                       [message |-> <<"requesting refactoring">>]),
                                "await_s2")
            IN IF M2.runs[r].pc = "go" THEN PipelineInvoke(M2, r) ELSE M2

\* read_text_file is called on the event-loop thread
PipelineBeginRead(M, r) ==
    [M EXCEPT !.runs[r].pc = "read", !.runs[r].on_loop = TRUE]

\* filename = file_path.name and the first status
PipelineStart(M, r) ==
    LET filename == PathName(M.runs[r].file_path)
        M1 == [M EXCEPT !.runs[r].filename = filename]
        M2 == broadcast(M1, r,
                        create_message_payload(M.runs[r].task_id, filename, "status",
                                               [message |-> <<"change detected", filename>>]),
                        "await_s1")
    IN IF M2.runs[r].pc = "go" THEN PipelineBeginRead(M2, r) ELSE M2

\* ---------------------------------------------------------------- initial state
NewRun(file_path, task_id, event) ==
    [pc |-> "scheduled", on_loop |-> FALSE,
     file_path |-> file_path, task_id |-> task_id, filename |-> <<>>,
     original_code |-> <<>>, input_data |-> <<>>, command |-> <<>>,
     result |-> SubprocessResult(<<>>, <<>>, -1, None),
     exc |-> None,
     published |-> <<>>,     \* history: the messages handed to broadcast
     audience |-> <<>>,      \* history: the connections registered at each of these calls
     event |-> event,        \* history: the event that started the run
     disk_at_diff |-> <<>>,  \* history: what was on disk when the diff was computed
     raised |-> {}]          \* history: the broadcast calls that raised into the run

Init ==
    /\ fileExists = TRUE
    /\ fileMtime = 100
    /\ fileText = InitialText
    /\ eventQueue = <<>>
    /\ nEvents = 0
    /\ callbacks = [eligible |-> 0, raised |-> 0]
    /\ runs = <<>>
    /\ active_connections = <<>>
    /\ conn = [s \in Subs |-> "new"]
    /\ inflight = <<>>
    /\ received = [s \in Subs |-> [r \in 1..MaxEvents |-> <<>>]]

Apply(M) ==
    /\ runs' = M.runs
    /\ inflight' = M.inflight

\* ---------------------------------------------------------------- environment
\* An editor saves foo.py: new text, new mtime, one modified event.
Save ==
    /\ nEvents < MaxEvents
    /\ Load < MaxLoad
    /\ fileExists' = TRUE
    /\ fileMtime' = fileMtime + 1
    /\ fileText' = FileTexts[(nEvents % Len(FileTexts)) + 1]
    /\ eventQueue' = Append(eventQueue, FileEvent(FooPath, fileMtime + 1))
    /\ nEvents' = nEvents + 1
    /\ UNCHANGED <<callbacks, runs, active_connections, conn, inflight, received>>

\* foo.py is removed.
Delete ==
    /\ fileExists
    /\ fileExists' = FALSE
    /\ UNCHANGED <<fileMtime, fileText, eventQueue, nEvents, callbacks, runs,
                   active_connections, conn, inflight, received>>

\* The observer also reports directories and files that are not watched sources.
OtherEvent(event) ==
    /\ nEvents < MaxEvents
    /\ Load < MaxLoad
    /\ eventQueue' = Append(eventQueue, event)
    /\ nEvents' = nEvents + 1
    /\ UNCHANGED <<fileExists, fileMtime, fileText, callbacks, runs,
                   active_connections, conn, inflight, received>>

\* The client of an open connection goes away: sends to it fail from now on.
Break(s) ==
    /\ conn[s] = "open"
    /\ conn' = [conn EXCEPT ![s] = "broken"]
    /\ UNCHANGED <<envVars, runs, active_connections, inflight, received>>

\* ---------------------------------------------------------------- watchdog thread
\* RefactorEventHandler.on_modified: filter, stat, schedule
on_modified ==
    /\ eventQueue # <<>>
    /\ eventQueue' = Tail(eventQueue)
    /\ LET event == Head(eventQueue)
           file_path == event.src_path
       IN IF ~is_watchable_file(event)
          THEN UNCHANGED <<callbacks, runs>>
          ELSE IF ~fileExists
          THEN \* file_path.stat() raises FileNotFoundError out of the callback
               /\ callbacks' = [eligible |-> callbacks.eligible + 1,
                                raised |-> callbacks.raised + 1]
               /\ UNCHANGED runs
          ELSE /\ callbacks' = [callbacks EXCEPT !.eligible = @ + 1]
               /\ runs' = Append(runs, NewRun(file_path,
                                              generate_task_id(file_path, fileMtime),
                                              event))
    /\ UNCHANGED <<fileExists, fileMtime, fileText, nEvents,
                   active_connections, conn, inflight, received>>

\* ---------------------------------------------------------------- worker thread
\* execute_refactor_subprocess returns in its thread.
ToolReturns(r, proc) ==
    /\ runs[r].pc = "tool"
    /\ runs' = [runs EXCEPT ![r].pc = "toolret",
                            ![r].on_loop = FALSE,
                            ![r].result = execute_refactor_subprocess(
                                              runs[r].command, runs[r].input_data, proc)]
    /\ UNCHANGED <<envVars, active_connections, conn, inflight, received>>

\* The child process never exits: subprocess.run is called without timeout=, so
\* its thread stays in it and nothing resumes the coroutine.
ToolHangs(r) ==
    /\ runs[r].pc = "tool"
    /\ runs' = [runs EXCEPT ![r].pc = "hung"]
    /\ UNCHANGED <<envVars, active_connections, conn, inflight, received>>

\* ---------------------------------------------------------------- event loop
\* RunStart with the runs taken one at a time: a run starts when those scheduled
\* before it are over
RunStartSerialized(r) ==
    /\ ~LoopBlocked
    /\ runs[r].pc = "scheduled"
    /\ \A q \in 1..(r - 1) : runs[q].pc \in {"done", "crashed"}
    /\ Apply(PipelineStart(Machine, r))
    /\ UNCHANGED <<envVars, active_connections, conn, received>>

\* The loop runs the scheduled coroutine up to its first suspension.
RunStart(r) ==
    /\ ~LoopBlocked
    /\ runs[r].pc = "scheduled"
    /\ Apply(PipelineStart(Machine, r))
    /\ UNCHANGED <<envVars, active_connections, conn, received>>

\* The blocking reads end and the coroutine goes on to its next suspension.
ReadDone(r, promptOk) ==
    /\ runs[r].pc = "read"
    /\ Apply(PipelineRead([Machine EXCEPT !.runs[r].on_loop = FALSE], r, promptOk))
    /\ UNCHANGED <<envVars, active_connections, conn, received>>

AwaitPcs == {"await_s1", "await_s2", "await_s3", "await_err", "await_diff", "await_exc"}

Awaited(r) == CHOOSE i \in 1..Len(inflight) : inflight[i].run = r /\ inflight[i].awaited

\* The gather result is taken: the entry leaves once its sends are over.
Consume(M, i) ==
    IF M.inflight[i].pending = {}
    THEN [M EXCEPT !.inflight = RemoveAt(@, i)]
    ELSE [M EXCEPT !.inflight[i].awaited = FALSE]

\* The coroutine resumes from the await it is suspended at.
Continue(M, r, pc, outcome) ==
    IF pc = "toolret" THEN PipelineResult(M, r)
    ELSE IF outcome = "raised"
    THEN IF pc = "await_exc"
         THEN [M EXCEPT !.runs[r].pc = "crashed"]
         ELSE PipelineExcept(M, r, SendError)
    ELSE IF pc = "await_s1" THEN PipelineBeginRead(M, r)
    ELSE IF pc = "await_s2" THEN PipelineInvoke(M, r)
    ELSE IF pc = "await_s3" THEN PipelineDiff([M EXCEPT !.runs[r].pc = "go"], r)
    ELSE [M EXCEPT !.runs[r].pc = "done"]

Resume(r) ==
    /\ ~LoopBlocked
    /\ \/ /\ runs[r].pc = "toolret"
          /\ Apply(Continue(Machine, r, "toolret", "ok"))
       \/ /\ runs[r].pc \in AwaitPcs
          /\ LET i == Awaited(r)
                 entry == inflight[i]
             IN /\ entry.outcome # "pending"
                /\ Apply(Continue(
                       Consume([Machine EXCEPT !.runs[r].raised =
                                   IF entry.outcome = "raised"
                                   THEN @ \cup {[seq |-> entry.seq,
                                                 recipients |-> entry.recipients,
                                                 failed |-> entry.failed]}
                                   ELSE @], i),
                       r, runs[r].pc, entry.outcome))
    /\ UNCHANGED <<envVars, active_connections, conn, received>>

\* One send_text of a gather: sends on one connection go out in the order they
\* were started; a send on a connection that is not open raises.
\* CanSend with no order between the sends on one connection
CanSendUnordered(i, c) ==
    c \in inflight[i].pending

CanSend(i, c) ==
    /\ c \in inflight[i].pending
    /\ \A j \in 1..(i - 1) : c \notin inflight[j].pending

SendResult(entry, c) ==
    LET pending == entry.pending \ {c}
    IN IF conn[c] = "open"
       THEN [entry EXCEPT !.pending = pending,
                          !.outcome = IF @ = "pending" /\ pending = {} THEN "ok" ELSE @]
       ELSE [entry EXCEPT !.pending = pending,
                          !.failed = @ \cup {c},
                          !.outcome = IF @ = "pending" THEN "raised" ELSE @]

SendStep(i, c) ==
    /\ ~LoopBlocked
    /\ CanSend(i, c)
    /\ LET entry == SendResult(inflight[i], c)
       IN /\ inflight' = IF entry.pending = {} /\ ~entry.awaited
                         THEN RemoveAt(inflight, i)
                         ELSE [inflight EXCEPT ![i] = entry]
          /\ received' = IF conn[c] = "open"
                         THEN [received EXCEPT ![c][inflight[i].run] =
                                                  Append(@, inflight[i].seq)]
                         ELSE received
    /\ UNCHANGED <<envVars, runs, active_connections, conn>>

\* connect with the new connection also joining the broadcasts that are in flight
connectJoinsInflight(s) ==
    /\ ~LoopBlocked
    /\ conn[s] = "new"
    /\ Load < MaxLoad
    /\ conn' = [conn EXCEPT ![s] = "open"]
    /\ active_connections' = Append(active_connections, s)
    /\ inflight' = [i \in 1..Len(inflight) |->
                       [inflight[i] EXCEPT !.recipients = @ \cup {s},
                                           !.pending = @ \cup {s}]]
    /\ UNCHANGED <<envVars, runs, received>>

\* websocket_endpoint: manager.connect has awaited accept (which touches no shared
\* state) and appends
connect(s) ==
    /\ ~LoopBlocked
    /\ conn[s] = "new"
    /\ Load < MaxLoad
    /\ conn' = [conn EXCEPT ![s] = "open"]
    /\ active_connections' = Append(active_connections, s)
    /\ UNCHANGED <<envVars, runs, inflight, received>>

\* websocket_endpoint: receive_text raises WebSocketDisconnect, manager.disconnect
EndpointDisconnect(s) ==
    /\ ~LoopBlocked
    /\ conn[s] = "broken"
    /\ conn' = [conn EXCEPT ![s] = "closed"]
    /\ active_connections' = disconnect(active_connections, s)
    /\ UNCHANGED <<envVars, runs, inflight, received>>

Next ==
    \/ Save
    \/ Delete
    \/ \E event \in OtherEvents : OtherEvent(event)
    \/ \E s \in Subs : Break(s)
    \/ on_modified
    \/ \E r \in Runs, proc \in ProcOutcomes : ToolReturns(r, proc)
    \/ \E r \in Runs : ToolHangs(r)
    \/ \E r \in Runs : RunStart(r)
    \/ \E r \in Runs, promptOk \in BOOLEAN : ReadDone(r, promptOk)
    \/ \E r \in Runs : Resume(r)
    \/ \E i \in 1..Len(inflight), c \in Subs : SendStep(i, c)
    \/ \E s \in Subs : connect(s)
    \/ \E s \in Subs : EndpointDisconnect(s)

Spec == Init /\ [][Next]_vars

\* ---------------------------------------------------------------- properties
Published(r) == runs[r].published

Finished(r) == runs[r].pc \in {"done", "crashed"}

ToolReturned(r) == runs[r].result.returncode # -1

\* the place of a message in the pipeline: the three statuses, then the result
StageRank(p) ==
    IF p.type = "status"
    THEN IF p.message[1] = "change detected" THEN 1
         ELSE IF p.message[1] = "requesting refactoring" THEN 2
         ELSE 3
    ELSE 4

CountType(r, t) == Cardinality({i \in 1..Len(Published(r)) : Published(r)[i].type = t})

SendPending(r, seq, c) ==
    \E i \in 1..Len(inflight) :
        inflight[i].run = r /\ inflight[i].seq = seq /\ c \in inflight[i].pending

C2_FailingSubscriberRemoved ==
    \A r \in Runs : \A call \in runs[r].raised :
        /\ \A c \in call.failed : c \notin Range(active_connections)
        /\ \A c \in call.recipients \ call.failed :
              conn[c] = "open" =>
                  \/ call.seq \in Range(received[c][r])
                  \/ SendPending(r, call.seq, c)

\* C3: no failed send ever reaches the run that called broadcast: the run handles no
\* send exception, does not die of one, and ends with the result of its last stage.
C3_SendFailureStaysInBroadcast ==
    \A r \in Runs :
        /\ runs[r].raised = {}
        /\ runs[r].exc.type # SendError.type
        /\ runs[r].pc # "crashed"

\* C4: a run whose tool invocation failed publishes exactly one error message, and
\* neither the computing-diff status nor a diff.
C4_ToolFailureOneError ==
    \A r \in Runs :
        (ToolReturned(r) /\ ~is_successful(runs[r].result)) =>
            /\ CountType(r, "diff") = 0
            /\ \A i \in 1..Len(Published(r)) : StageRank(Published(r)[i]) # 3
            /\ CountType(r, "error") <= 1
            /\ Finished(r) => CountType(r, "error") = 1

\* the code part of the tool's input: what follows the separator
CodeSent(input_data) ==
    LET sep == CHOOSE i \in 1..Len(input_data) :
                   /\ input_data[i] = "---"
                   /\ \A j \in 1..(i - 1) : input_data[j] # "---"
    IN SubSeq(input_data, sep + 1, Len(input_data))

Ready(r) ==
    \/ runs[r].pc \in {"scheduled", "toolret"}
    \/ /\ runs[r].pc \in AwaitPcs
       /\ inflight[Awaited(r)].outcome # "pending"

Step(r) == RunStart(r) \/ Resume(r)

\* C6: no exception leaves a run: whatever is raised in a run is handled in it, and
\* an error message with the run's id and the exception is published; and whatever
\* became of that run, the watcher thread can still dispatch its next event and
\* every other run that is ready can take its next step.
C6_ExceptionHandledInRun ==
    \A r \in Runs :
        /\ runs[r].pc # "crashed"
        /\ runs[r].exc # None =>
               /\ \E i \in 1..Len(Published(r)) :
                      /\ Published(r)[i].type = "error"
                      /\ Published(r)[i].id = runs[r].task_id
                      /\ Published(r)[i].error = InternalError(runs[r].exc)
               /\ eventQueue # <<>> => ENABLED on_modified
               /\ \A r2 \in Runs \ {r} : (Ready(r2) /\ ~LoopBlocked) => ENABLED Step(r2)

\* C7: a run that finds its file gone when it reads it has published nothing.
C7_VanishedFileSilent ==
    \A r \in Runs :
        runs[r].exc = ReadError(runs[r].file_path) => Published(r) = <<>>

\* C8: runs started by the events of saves with different mtimes have different
\* task ids, and no two runs share a task id.
C8_DistinctTaskIds ==
    \A r1, r2 \in Runs :
        r1 # r2 =>
            /\ runs[r1].event.saved # runs[r2].event.saved =>
                   runs[r1].task_id # runs[r2].task_id
            /\ runs[r1].task_id # runs[r2].task_id

\* C9: every on_modified call for a watchable file has scheduled one run, and the
\* watcher thread never waits for a run.
C9_OneRunPerEligibleEvent ==
    /\ Len(runs) = callbacks.eligible
    /\ eventQueue # <<>> => ENABLED on_modified

\* C10: while a run waits for the tool (and no run is reading a file), the loop is
\* free: every ready run can take its step, every send that is due can be made,
\* a new client can be registered and a gone one removed.
C10_LoopFreeDuringTool ==
    ( /\ \E r \in Runs : runs[r].pc = "tool"
      /\ ~\E r \in Runs : runs[r].pc = "read" )
    => /\ \A r2 \in Runs : Ready(r2) => ENABLED Step(r2)
       /\ \A i \in 1..Len(inflight), c \in Subs : CanSend(i, c) => ENABLED SendStep(i, c)
       /\ \A s \in Subs : (conn[s] = "new" /\ Load < MaxLoad) => ENABLED connect(s)
       /\ \A s \in Subs : conn[s] = "broken" => ENABLED EndpointDisconnect(s)

C10_Witness ==
    \E r, r2 \in Runs :
        /\ runs[r].pc = "tool"
        /\ runs[r2].pc = "toolret"
        /\ ENABLED Resume(r2)
        /\ \E s \in Subs : conn[s] = "new" /\ ENABLED connect(s)

\* what can move run r on: its start, the end of its reads, the return of its tool,
\* its resumption from an await
RunStep(r) ==
    \/ Step(r)
    \/ \E promptOk \in BOOLEAN : ReadDone(r, promptOk)
    \/ \E proc \in ProcOutcomes : ToolReturns(r, proc)

\* C11: the wait for the tool is bounded: a run whose tool does not return is not
\* left waiting, it can still be moved on (to its error message) and has not lost
\* its way to a final diff or error message.
C11_ToolWaitBounded ==
    \A r \in Runs :
        runs[r].pc = "hung" =>
            \/ ENABLED RunStep(r)
            \/ CountType(r, "diff") + CountType(r, "error") > 0

\* C12: runs for one file are not serialized: while an earlier run of the file is
\* still in flight, a later run of the same file that is ready takes its next step
\* (its start, its statuses, its diff) without waiting for it.
C12_RunsNotSerialized ==
    \A r1, r2 \in Runs :
        ( /\ r1 < r2
          /\ runs[r1].file_path = runs[r2].file_path
          /\ ~Finished(r1)
          /\ Ready(r2) /\ ~LoopBlocked )
        => ENABLED Step(r2)

\* the run of the later save has published its diff while the run of the earlier
\* save of the same file is still about to publish its own
C12_Witness ==
    \E r1, r2 \in Runs :
        /\ r1 < r2
        /\ runs[r1].file_path = runs[r2].file_path
        /\ runs[r1].event.saved < runs[r2].event.saved
        /\ CountType(r2, "diff") = 1
        /\ runs[r2].pc = "done"
        /\ runs[r1].pc = "toolret"
        /\ is_successful(runs[r1].result)
        /\ CountType(r1, "diff") = 0
        /\ ENABLED Resume(r1)

\* C13: what a client receives was broadcast when the client was already in
\* active_connections: every message received is one whose broadcast call found
\* the client registered, and the sends of a call in flight are those to the
\* connections registered when it was made, whoever connects meanwhile.
C13_NoReplayToNewSubscriber ==
    /\ \A c \in Subs : \A r \in Runs : \A k \in 1..Len(received[c][r]) :
           c \in runs[r].audience[received[c][r][k]]
    /\ \A i \in 1..Len(inflight) :
           /\ inflight[i].recipients = runs[inflight[i].run].audience[inflight[i].seq]
           /\ inflight[i].pending \subseteq inflight[i].recipients

\* a client that connected after the first message of a run went out to another
\* client receives the later messages of the run and not the first
C13_Witness ==
    \E c \in Subs : \E r \in Runs :
        /\ conn[c] = "open"
        /\ received[c][r] # <<>>
        /\ received[c][r][1] > 1
        /\ c \notin runs[r].audience[1]
        /\ runs[r].audience[1] # {}

\* C14: the file reads of a run are not made on the event-loop thread: while a run
\* is in its reads, every other run that is ready can take its step, every send
\* that is due can be made, a new client can be registered and a gone one removed.
C14_LoopFreeDuringRead ==
    \A r \in Runs :
        runs[r].pc = "read" =>
            /\ ~runs[r].on_loop
            /\ \A r2 \in Runs \ {r} : Ready(r2) => ENABLED Step(r2)
            /\ \A i \in 1..Len(inflight), c \in Subs :
                   CanSend(i, c) => ENABLED SendStep(i, c)
            /\ \A s \in Subs : (conn[s] = "new" /\ Load < MaxLoad) => ENABLED connect(s)
            /\ \A s \in Subs : conn[s] = "broken" => ENABLED EndpointDisconnect(s)

\* the tool's captured output that the error message is to show
CapturedOutput(result) ==
    IF result.stderr # <<>> THEN result.stderr ELSE result.stdout

\* C15: when the tool has exited with a non-zero status, the error message the run
\* publishes for it contains the tool's stderr if that is not empty, and the
\* tool's stdout otherwise.
C15_ErrorShowsToolOutput ==
    \A r \in Runs :
        (ToolReturned(r) /\ runs[r].result.returncode # 0) =>
            \A i \in 1..Len(Published(r)) :
                ( /\ Published(r)[i].type = "error"
                  /\ \A j \in 1..(i - 1) : Published(r)[j].type # "error" )
                => Contains(Published(r)[i].error, CapturedOutput(runs[r].result))

\* a file, with the watched extension, that is not the file agent_server.py
IsOtherSource(event) ==
    /\ ~event.is_directory
    /\ EndsWith(event.src_path, <<".py">>)
    /\ PathName(event.src_path) # <<"agent_server", ".py">>

\* C16: on_modified takes an event as eligible exactly when it is for a file with
\* the .py extension that is not the file agent_server.py itself; a path that only
\* has that text in a directory name or in a longer file name is eligible.
C16_FilterExcludesOwnFileOnly ==
    [][ (eventQueue # <<>> /\ eventQueue' = Tail(eventQueue))
        => ( (callbacks'.eligible = callbacks.eligible + 1)
             <=> IsOtherSource(Head(eventQueue)) ) ]_vars

\* the broadcast calls that have sends, by run and message number
Calls(q) == {<<q[i].run, q[i].seq>> : i \in 1..Len(q)}

\* C17: a step in which a run calls broadcast while active_connections is empty
\* raises nothing into the run and does not suspend it, starts no send, delivers
\* nothing, and leaves the registry, the connections and every other run as they
\* were; and no message broadcast to an empty registry is ever sent or received.
C17_BroadcastToNobody ==
    /\ [](\A r \in Runs : \A n \in 1..Len(runs[r].audience) :
              runs[r].audience[n] = {} =>
                  /\ <<r, n>> \notin Calls(inflight)
                  /\ \A c \in Subs : n \notin Range(received[c][r])
                  /\ \A call \in runs[r].raised : call.seq # n)
    /\ [][ \A r \in Runs :
              ( /\ active_connections = <<>>
                /\ Len(runs'[r].published) > Len(runs[r].published) )
              => /\ \A call \in runs'[r].raised \ runs[r].raised :
                        call.seq <= Len(runs[r].published)
                 /\ runs'[r].pc \notin AwaitPcs \cup {"crashed"}
                 /\ Calls(inflight') \subseteq Calls(inflight)
                 /\ received' = received
                 /\ active_connections' = active_connections
                 /\ conn' = conn
                 /\ \A r2 \in Runs \ {r} : runs'[r2] = runs[r2] ]_vars

\* a run has gone through all its broadcasts with nobody registered while another
\* run was in flight
C17_Witness ==
    \E r, r2 \in Runs :
        /\ r # r2
        /\ runs[r].pc = "done"
        /\ CountType(r, "diff") = 1
        /\ \A n \in 1..Len(runs[r].audience) : runs[r].audience[n] = {}
        /\ runs[r2].pc \in AwaitPcs \cup {"tool", "toolret"}

\* the list without x, the others in their order
Without(s, x) ==
    LET keep == {i \in 1..Len(s) : s[i] # x}
        nth(n) == CHOOSE i \in keep : Cardinality({j \in keep : j <= i}) = n
    IN [n \in 1..Cardinality(keep) |-> nth(n)]

\* C18: on the registry of any reachable state and for any client - registered,
\* never registered or already removed - disconnect returns the registry without
\* that client and with the others in their order; for a client that is not in it
\* that is the registry unchanged, and a second call changes nothing more.
C18_DisconnectIdempotent ==
    \A s \in Subs :
        LET once == disconnect(active_connections, s)
        IN /\ once = [n \in 1..Len(Without(active_connections, s)) |->
                         active_connections[Without(active_connections, s)[n]]]
           /\ s \notin Range(active_connections) => once = active_connections
           /\ disconnect(once, s) = once

\* one client has been removed by its endpoint, another is registered
C18_Witness ==
    \E s, t \in Subs :
        /\ conn[s] = "closed"
        /\ t \in Range(active_connections)
        /\ disconnect(active_connections, s) = active_connections
        /\ disconnect(active_connections, t) # active_connections
        /\ disconnect(disconnect(active_connections, t), t) = disconnect(active_connections, t)

\* C19: all the messages of a run carry one task id and one filename, those the
\* run was given when it was scheduled: the id on_modified derived and the name of
\* its file; no step changes the id or the file of a run, whatever happens to the
\* file on disk.
C19_OneIdPerRun ==
    /\ [](\A r \in Runs : \A i \in 1..Len(Published(r)) :
              /\ Published(r)[i].id = runs[r].task_id
              /\ Published(r)[i].id = Published(r)[1].id
              /\ Published(r)[i].filename = PathName(runs[r].file_path)
              /\ Published(r)[i].filename = Published(r)[1].filename)
    /\ [][ \A r \in Runs :
              /\ runs'[r].task_id = runs[r].task_id
              /\ runs'[r].file_path = runs[r].file_path
              /\ Published(r) # <<>> => runs'[r].filename = runs[r].filename ]_vars

\* a run has published its diff after its file was saved again: the id of its
\* messages is no longer the one the file's mtime gives
C19_Witness ==
    \E r \in Runs :
        /\ CountType(r, "diff") = 1
        /\ Len(Published(r)) = 4
        /\ fileExists
        /\ runs[r].task_id # generate_task_id(runs[r].file_path, fileMtime)
        /\ runs[r].disk_at_diff # <<runs[r].original_code>>

\* a diff or an error message
Terminal(p) == p.type \in {"diff", "error"}

\* C20: a run publishes at most one diff or error message and nothing after it,
\* and no client receives both a diff and an error message of one run.
C20_OneTerminalMessage ==
    \A r \in Runs :
        /\ CountType(r, "diff") + CountType(r, "error") <= 1
        /\ \A i \in 1..Len(Published(r)) :
               Terminal(Published(r)[i]) => i = Len(Published(r))
        /\ \A c \in Subs :
               ~ /\ \E k \in 1..Len(received[c][r]) :
                        Published(r)[received[c][r][k]].type = "diff"
                 /\ \E k \in 1..Len(received[c][r]) :
                        Published(r)[received[c][r][k]].type = "error"

====
